---- MODULE Spec2Model ----
(***************************************************************************)
(* The session multiplexer of gdbgui/backend.py: the table of gdb          *)
(* controllers keyed by websocket client id, the three websocket handlers  *)
(* (connect, run_gdb_command, disconnect) and the background task that      *)
(* reads every controller and forwards its output to the owner's room.     *)
(*                                                                         *)
(* Scheduling.  The handlers and the reader run as cooperative tasks        *)
(* (SocketIO(async_mode='eventlet'), backend.py:60).  A task can be         *)
(* switched out where it calls into the scheduler or into process I/O:     *)
(* socketio.sleep, socketio.start_background_task, GdbController(...),     *)
(* .write, .exit and .get_gdb_response.  The switch is taken on entry to   *)
(* the call; the call's effect and the Python statements after it, up to   *)
(* the next such call, form one step.  emit only adds an event to a room   *)
(* and is part of the step that calls it.                                  *)
(*                                                                         *)
(* dict.items() (backend.py:193) is a list copy on Python 2 and a live     *)
(* view on Python 3, where a change of the dict's size between two         *)
(* iterations raises RuntimeError.  The file runs on both, so the build    *)
(* is chosen in Init (py3) and never changes.                              *)
(***************************************************************************)
EXTENDS Integers, Sequences, FiniteSets, TLC

NumClients == 2      \* websocket client ids (request.sid)
MaxSpawn   == 2      \* gdb processes spawned over a run
MaxOut     == 2      \* output records one gdb process produces
MaxInbound == 3      \* websocket events delivered over a run

Sids == 1..NumClients
None == 0            \* Python None; an absent dict key

VARIABLES
    py3,                \* TRUE: dict.items() is a live view (Python 3)
    gdb_controllers,    \* _gdb_state['gdb_controllers']: sid -> pid of its controller, or None
    gdb_reader_thread,  \* _gdb_state['gdb_reader_thread']: None or the task started last
    procs,              \* every GdbController ever constructed, indexed by pid
    rooms,              \* events emitted so far to each client's room, in order
    readers,            \* every read_and_forward_gdb_output task ever started
    conn,               \* client_connected in flight per sid: "idle", "spawn", "start"
    run,                \* run_gdb_command in flight per sid: None, or the controller it is about to write to
    disc,               \* client_disconnected in flight per sid: None, or the controller it is about to exit
    inbound,            \* number of websocket events delivered so far
    raised,             \* handlers that ended with an uncaught exception: <<name, sid>>
    STARTUP_WITH_SHELL_OFF,  \* backend.py:45-51, fixed by the platform
    DEFAULT_GDB_ARGS    \* the module-level list of backend.py:41

vars == <<py3, gdb_controllers, gdb_reader_thread, procs, rooms, readers,
          conn, run, disc, inbound, raised, STARTUP_WITH_SHELL_OFF, DEFAULT_GDB_ARGS>>

\* What no handler and no reader step changes.
fixed == <<py3, STARTUP_WITH_SHELL_OFF>>

Pids == 1..Len(procs)

Keys(tbl) == {s \in Sids : tbl[s] # None}

Items(tbl) == {<<s, tbl[s]>> : s \in Keys(tbl)}

----------------------------------------------------------------------------
(* Events and rooms *)

GdbPid(p) == [ev |-> "gdb_pid", pid |-> p, lo |-> 0, hi |-> 0, msg |-> ""]

GdbResponse(p, lo, hi) == [ev |-> "gdb_response", pid |-> p, lo |-> lo, hi |-> hi, msg |-> ""]

ErrorRunning(m) == [ev |-> "error_running_gdb_command", pid |-> None, lo |-> 0, hi |-> 0, msg |-> m]

\* Emit with the room argument dropped: the event goes to every client.
Emit_Broadcast(rm, room, e) == [s \in Sids |-> Append(rm[s], e)]

\* emit(event, data) inside a handler goes to the room of request.sid;
\* socketio.emit(..., room=client_id) goes to the room named.
Emit(rm, room, e) == [rm EXCEPT ![room] = Append(@, e)]

----------------------------------------------------------------------------
(* The gdb processes *)

\* A controller as GdbController(gdb_path, gdb_args) leaves it.  exited: exit()
\* has been called on it; died: gdb has ended by itself.
NewController(s) == [owner |-> s, gdb_args |-> DEFAULT_GDB_ARGS, exited |-> FALSE,
                     died |-> FALSE, made |-> 0, read |-> 0, wrote |-> 0]

\* The records a call of get_gdb_response(timeout_sec=0) returns: everything
\* the process has produced and nobody has read, none after exit().
Pending(p) == IF procs[p].exited THEN <<1, 0>> ELSE <<procs[p].read + 1, procs[p].made>>

\* A read that leaves the records in the controller's queue.
Consume_Keep(pr, p) == pr

Consume(pr, p) == [pr EXCEPT ![p].read = IF pr[p].exited THEN @ ELSE pr[p].made]

\* gdb prints a record on its own schedule.
GdbOutput(p) ==
    /\ ~procs[p].exited
    /\ ~procs[p].died
    /\ procs[p].made < MaxOut
    /\ procs' = [procs EXCEPT ![p].made = @ + 1]
    /\ UNCHANGED <<fixed, DEFAULT_GDB_ARGS, gdb_controllers, gdb_reader_thread, rooms, readers,
                   conn, run, disc, inbound, raised>>

\* gdb ends by itself (the user quits it, it crashes) with no disconnect.
GdbDies(p) ==
    /\ ~procs[p].exited
    /\ ~procs[p].died
    /\ procs' = [procs EXCEPT ![p].died = TRUE]
    /\ UNCHANGED <<fixed, DEFAULT_GDB_ARGS, gdb_controllers, gdb_reader_thread, rooms, readers,
                   conn, run, disc, inbound, raised>>

----------------------------------------------------------------------------
(* client_connected, backend.py:123-149 *)

\* The membership test of line 128 lost: every connect spawns.
HasSession_Never(s) == FALSE

HasSession(s) == gdb_controllers[s] # None

ReaderMissing == gdb_reader_thread = None

\* A reader task.  pc, client_id and gdb are its position and loop variables;
\* todo is what is left of the items() taken at line 193 (the list itself on
\* Python 2), seen the controllers the iterator has handed out, len0 the
\* dict's size when the iterator was made.  faulted, lenx and lost record the
\* tick for the properties: an exception was swallowed in this tick, the
\* dict's size when RuntimeError was raised, and the pairs of line 193 that
\* were still in the table with unread output when the tick ended unpolled;
\* sawDead the controllers this tick has polled after gdb had died.
NewReader == [pc |-> "sleep", client_id |-> None, gdb |-> None,
              todo |-> {}, seen |-> {}, len0 |-> 0,
              faulted |-> FALSE, lenx |-> 0, lost |-> {}, sawDead |-> {}]

Spawning == Cardinality({s \in Sids : conn[s] = "spawn"})

\* Line 144 moved under the if of line 128: a known sid is told nothing.
ClientConnected_Known_Silent(s) ==
    /\ conn[s] = "idle"
    /\ inbound < MaxInbound
    /\ HasSession(s)
    /\ inbound' = inbound + 1
    /\ conn' = [conn EXCEPT ![s] = IF ReaderMissing THEN "start" ELSE "idle"]
    /\ UNCHANGED <<fixed, DEFAULT_GDB_ARGS, gdb_controllers, gdb_reader_thread, procs, rooms,
                   readers, run, disc, raised>>

\* Lines 128-147 for a sid that is in the table: no spawn, gdb_pid emitted,
\* then the check of gdb_reader_thread.
ClientConnected_Known(s) ==
    /\ conn[s] = "idle"
    /\ inbound < MaxInbound
    /\ HasSession(s)
    /\ inbound' = inbound + 1
    /\ rooms' = Emit(rooms, s, GdbPid(gdb_controllers[s]))
    /\ conn' = [conn EXCEPT ![s] = IF ReaderMissing THEN "start" ELSE "idle"]
    /\ UNCHANGED <<fixed, DEFAULT_GDB_ARGS, gdb_controllers, gdb_reader_thread, procs, readers,
                   run, disc, raised>>

\* Lines 130-139: gdb_args is bound to the module-level list itself, and the
\* append of line 139 is made on that list.  (With app.config['LLDB'] the
\* same holds of DEFAULT_LLDB_ARGS.)
GdbArgs == IF STARTUP_WITH_SHELL_OFF
           THEN Append(DEFAULT_GDB_ARGS, "--init-eval-command=set startup-with-shell off")
           ELSE DEFAULT_GDB_ARGS

\* Lines 128-139 for a sid that is not in the table: on to GdbController(...).
ClientConnected_New(s) ==
    /\ conn[s] = "idle"
    /\ inbound < MaxInbound
    /\ ~HasSession(s)
    /\ Len(procs) + Spawning < MaxSpawn
    /\ inbound' = inbound + 1
    /\ DEFAULT_GDB_ARGS' = GdbArgs
    /\ conn' = [conn EXCEPT ![s] = "spawn"]
    /\ UNCHANGED <<fixed, gdb_controllers, gdb_reader_thread, procs, rooms,
                   readers, run, disc, raised>>

\* Lines 141-147: the controller is constructed and stored, gdb_pid emitted,
\* then the check of gdb_reader_thread.
ClientConnected_Spawn(s) ==
    /\ conn[s] = "spawn"
    /\ procs' = Append(procs, NewController(s))
    /\ gdb_controllers' = [gdb_controllers EXCEPT ![s] = Len(procs) + 1]
    /\ rooms' = Emit(rooms, s, GdbPid(Len(procs) + 1))
    /\ conn' = [conn EXCEPT ![s] = IF ReaderMissing THEN "start" ELSE "idle"]
    /\ UNCHANGED <<fixed, DEFAULT_GDB_ARGS, gdb_reader_thread, readers, run, disc, inbound, raised>>

\* Line 141 when GdbController(...) raises: nothing catches it.
ClientConnected_SpawnFails(s) ==
    /\ conn[s] = "spawn"
    /\ conn' = [conn EXCEPT ![s] = "idle"]
    /\ raised' = raised \cup {<<"client_connected", s>>}
    /\ UNCHANGED <<fixed, DEFAULT_GDB_ARGS, gdb_controllers, gdb_reader_thread, procs, rooms,
                   readers, run, disc, inbound>>

\* Line 148: the task is started and stored.
ClientConnected_Start(s) ==
    /\ conn[s] = "start"
    /\ readers' = Append(readers, NewReader)
    /\ gdb_reader_thread' = Len(readers) + 1
    /\ conn' = [conn EXCEPT ![s] = "idle"]
    /\ UNCHANGED <<fixed, DEFAULT_GDB_ARGS, gdb_controllers, procs, rooms, run, disc, inbound, raised>>

client_connected(s) ==
    \/ ClientConnected_Known(s)
    \/ ClientConnected_New(s)
    \/ ClientConnected_Spawn(s)
    \/ ClientConnected_SpawnFails(s)
    \/ ClientConnected_Start(s)

----------------------------------------------------------------------------
(* run_gdb_command, backend.py:152-169 *)

\* The else branch of line 168 creating a controller instead of reporting.
RunGdbCommand_NotRunning_Spawns(s) ==
    /\ run[s] = None
    /\ inbound < MaxInbound
    /\ gdb_controllers[s] = None
    /\ Len(procs) < MaxSpawn
    /\ inbound' = inbound + 1
    /\ procs' = Append(procs, [NewController(s) EXCEPT !.wrote = 1])
    /\ gdb_controllers' = [gdb_controllers EXCEPT ![s] = Len(procs) + 1]
    /\ UNCHANGED <<fixed, DEFAULT_GDB_ARGS, gdb_reader_thread, rooms, readers, conn, run, disc, raised>>

\* Lines 160, 169: no controller for the sid.
RunGdbCommand_NotRunning(s) ==
    /\ run[s] = None
    /\ inbound < MaxInbound
    /\ ~HasSession(s)
    /\ inbound' = inbound + 1
    /\ rooms' = Emit(rooms, s, ErrorRunning("gdb is not running"))
    /\ UNCHANGED <<fixed, DEFAULT_GDB_ARGS, gdb_controllers, gdb_reader_thread, procs, readers,
                   conn, run, disc, raised>>

\* Lines 160-164: the controller is looked up, on to .write(...).
RunGdbCommand_Lookup(s) ==
    /\ run[s] = None
    /\ inbound < MaxInbound
    /\ HasSession(s)
    /\ inbound' = inbound + 1
    /\ run' = [run EXCEPT ![s] = gdb_controllers[s]]
    /\ UNCHANGED <<fixed, DEFAULT_GDB_ARGS, gdb_controllers, gdb_reader_thread, procs, rooms,
                   readers, conn, disc, raised>>

\* Line 164 with read_response left at its default: the write waits for
\* gdb's response and the handler forwards it.
RunGdbCommand_Write_Reads(s) ==
    /\ run[s] # None
    /\ ~procs[run[s]].exited
    /\ ~procs[run[s]].died
    /\ LET resp == Pending(run[s])
       IN /\ procs' = [Consume(procs, run[s]) EXCEPT ![run[s]].wrote = @ + 1]
          /\ rooms' = IF resp[1] <= resp[2]
                      THEN Emit(rooms, s, GdbResponse(run[s], resp[1], resp[2]))
                      ELSE rooms
    /\ run' = [run EXCEPT ![s] = None]
    /\ UNCHANGED <<fixed, DEFAULT_GDB_ARGS, gdb_controllers, gdb_reader_thread, readers,
                   conn, disc, inbound, raised>>

\* Line 164: the command reaches gdb.
RunGdbCommand_Write(s) ==
    /\ run[s] # None
    /\ ~procs[run[s]].exited
    /\ ~procs[run[s]].died
    /\ procs' = [procs EXCEPT ![run[s]].wrote = @ + 1]
    /\ run' = [run EXCEPT ![s] = None]
    /\ UNCHANGED <<fixed, DEFAULT_GDB_ARGS, gdb_controllers, gdb_reader_thread, rooms, readers,
                   conn, disc, inbound, raised>>

\* The except branch of lines 166-167 dropping the controller it could not
\* write to.
RunGdbCommand_WriteFails_Pops(s) ==
    /\ run[s] # None
    /\ rooms' = Emit(rooms, s, ErrorRunning("str(e)"))
    /\ gdb_controllers' = [gdb_controllers EXCEPT ![s] = None]
    /\ run' = [run EXCEPT ![s] = None]
    /\ UNCHANGED <<fixed, DEFAULT_GDB_ARGS, gdb_reader_thread, procs, readers, conn, disc, inbound, raised>>

\* Lines 166-167: .write raised (always after exit() or gdb's death).
RunGdbCommand_WriteFails(s) ==
    /\ run[s] # None
    /\ rooms' = Emit(rooms, s, ErrorRunning("str(e)"))
    /\ run' = [run EXCEPT ![s] = None]
    /\ UNCHANGED <<fixed, DEFAULT_GDB_ARGS, gdb_controllers, gdb_reader_thread, procs, readers,
                   conn, disc, inbound, raised>>

run_gdb_command(s) ==
    \/ RunGdbCommand_NotRunning(s)
    \/ RunGdbCommand_Lookup(s)
    \/ RunGdbCommand_Write(s)
    \/ RunGdbCommand_WriteFails(s)

----------------------------------------------------------------------------
(* client_disconnected, backend.py:172-179 *)

\* Line 176: no controller for the sid, nothing to do.
ClientDisconnected_Unknown(s) ==
    /\ disc[s] = None
    /\ inbound < MaxInbound
    /\ ~HasSession(s)
    /\ inbound' = inbound + 1
    /\ UNCHANGED <<fixed, DEFAULT_GDB_ARGS, gdb_controllers, gdb_reader_thread, procs, rooms,
                   readers, conn, run, disc, raised>>

\* Lines 176-178: the controller is looked up, on to .exit().
ClientDisconnected_Lookup(s) ==
    /\ disc[s] = None
    /\ inbound < MaxInbound
    /\ HasSession(s)
    /\ inbound' = inbound + 1
    /\ disc' = [disc EXCEPT ![s] = gdb_controllers[s]]
    /\ UNCHANGED <<fixed, DEFAULT_GDB_ARGS, gdb_controllers, gdb_reader_thread, procs, rooms,
                   readers, conn, run, raised>>

\* Lines 178-179: the process is terminated and the entry popped.
ClientDisconnected_Exit(s) ==
    /\ disc[s] # None
    /\ procs' = [procs EXCEPT ![disc[s]].exited = TRUE]
    /\ gdb_controllers' = [gdb_controllers EXCEPT ![s] = None]
    /\ disc' = [disc EXCEPT ![s] = None]
    /\ UNCHANGED <<fixed, DEFAULT_GDB_ARGS, gdb_reader_thread, rooms, readers, conn, run,
                   inbound, raised>>

\* Line 178 when .exit() raises: nothing catches it, line 179 is not reached.
ClientDisconnected_ExitFails(s) ==
    /\ disc[s] # None
    /\ disc' = [disc EXCEPT ![s] = None]
    /\ raised' = raised \cup {<<"client_disconnected", s>>}
    /\ UNCHANGED <<fixed, DEFAULT_GDB_ARGS, gdb_controllers, gdb_reader_thread, procs, rooms,
                   readers, conn, run, inbound>>

client_disconnected(s) ==
    \/ ClientDisconnected_Unknown(s)
    \/ ClientDisconnected_Lookup(s)
    \/ ClientDisconnected_Exit(s)
    \/ ClientDisconnected_ExitFails(s)

----------------------------------------------------------------------------
(* read_and_forward_gdb_output, backend.py:187-209 *)

\* What the for statement does when it asks the items() iterator for the
\* next pair, for a reader whose record is r (the pair just handled already
\* accounted for).  Python 2: the next pair of the list copied at line 193.
\* Python 3: RuntimeError if the dict's size differs from its size when the
\* iterator was made, else the next entry of the dict not yet visited.
\* The loop variable gdb is never None: the table holds controllers only,
\* so the break at line 206 is never taken.
Unpolled(r) == {it \in r.todo : /\ gdb_controllers[it[1]] = it[2]
                                 /\ ~procs[it[2]].exited
                                 /\ procs[it[2]].read < procs[it[2]].made}

Dead(r) == [r EXCEPT !.pc = "dead", !.lenx = Cardinality(Keys(gdb_controllers)),
                     !.lost = Unpolled(r)]

Asleep(r) == [r EXCEPT !.pc = "sleep", !.client_id = None, !.gdb = None,
                       !.lost = Unpolled(r)]

At(r, s, p) == [r EXCEPT !.pc = "poll", !.client_id = s, !.gdb = p,
                         !.todo = @ \ {<<s, p>>}, !.seen = @ \cup {p}]

Rest(r) == IF py3 THEN {it \in Items(gdb_controllers) : it[2] \notin r.seen}
                  ELSE r.todo

SizeChanged(r) == py3 /\ Cardinality(Keys(gdb_controllers)) # r.len0

ForNext(d, r) ==
    IF SizeChanged(r)
    THEN readers' = [readers EXCEPT ![d] = Dead(r)]
    ELSE IF Rest(r) = {}
         THEN readers' = [readers EXCEPT ![d] = Asleep(r)]
         ELSE \E it \in Rest(r) : readers' = [readers EXCEPT ![d] = At(r, it[1], it[2])]

\* Line 196 has been run for the reader's current pair.
Polled(r) == IF procs[r.gdb].died THEN [r EXCEPT !.sawDead = @ \cup {r.gdb}] ELSE r

\* Lines 192-193: sleep returns, items() is taken and the first pair fetched.
Reader_Wake(d) ==
    /\ readers[d].pc = "sleep"
    /\ ForNext(d, [readers[d] EXCEPT !.todo = Items(gdb_controllers), !.seen = {},
                                     !.len0 = Cardinality(Keys(gdb_controllers)),
                                     !.faulted = FALSE, !.lost = {}, !.sawDead = {}])
    /\ UNCHANGED <<fixed, DEFAULT_GDB_ARGS, gdb_controllers, gdb_reader_thread, procs, rooms,
                   conn, run, disc, inbound, raised>>

\* Lines 196-199: the controller is read; a non-empty response is emitted to
\* the room of client_id; then the next pair.
Reader_Poll(d) ==
    /\ readers[d].pc = "poll"
    /\ LET p == readers[d].gdb
           resp == Pending(p)
       IN /\ procs' = Consume(procs, p)
          /\ rooms' = IF resp[1] <= resp[2]
                      THEN Emit(rooms, readers[d].client_id, GdbResponse(p, resp[1], resp[2]))
                      ELSE rooms
    /\ ForNext(d, Polled(readers[d]))
    /\ UNCHANGED <<fixed, DEFAULT_GDB_ARGS, gdb_controllers, gdb_reader_thread, conn, run, disc,
                   inbound, raised>>

\* Lines 208-209: get_gdb_response raised; the exception is printed and the
\* loop asks for the next pair.
Reader_PollFault(d) ==
    /\ readers[d].pc = "poll"
    /\ ForNext(d, [Polled(readers[d]) EXCEPT !.faulted = TRUE])
    /\ UNCHANGED <<fixed, DEFAULT_GDB_ARGS, gdb_controllers, gdb_reader_thread, procs, rooms,
                   conn, run, disc, inbound, raised>>

read_and_forward_gdb_output(d) ==
    \/ Reader_Wake(d)
    \/ Reader_Poll(d)
    \/ Reader_PollFault(d)

----------------------------------------------------------------------------

Init ==
    /\ py3 \in BOOLEAN
    /\ gdb_controllers = [s \in Sids |-> None]
    /\ gdb_reader_thread = None
    /\ procs = <<>>
    /\ rooms = [s \in Sids |-> <<>>]
    /\ readers = <<>>
    /\ conn = [s \in Sids |-> "idle"]
    /\ run = [s \in Sids |-> None]
    /\ disc = [s \in Sids |-> None]
    /\ inbound = 0
    /\ raised = {}
    /\ STARTUP_WITH_SHELL_OFF \in BOOLEAN
    /\ DEFAULT_GDB_ARGS = <<"-nx", "--interpreter=mi2">>

Next ==
    \/ \E s \in Sids : client_connected(s)
    \/ \E s \in Sids : run_gdb_command(s)
    \/ \E s \in Sids : client_disconnected(s)
    \/ \E d \in 1..Len(readers) : read_and_forward_gdb_output(d)
    \/ \E p \in Pids : GdbOutput(p)

Spec == Init /\ [][Next]_vars

\* Scheduling under eventlet: a green thread that is ready to run is run, so
\* a handler waiting to start the reader does start it and a reader that can
\* take a step takes it; and a read of a given controller that is tried again
\* and again does not raise every time.
Fairness ==
    /\ \A s \in Sids : WF_vars(ClientConnected_Start(s))
    /\ \A d \in 1..NumClients :
           /\ WF_vars(d <= Len(readers) /\ read_and_forward_gdb_output(d))
           /\ \A p \in 1..MaxSpawn :
                  SF_vars(d <= Len(readers) /\ readers[d].gdb = p /\ Reader_Poll(d))

LiveSpec == Spec /\ Fairness

\* gdb ending by itself shows to the handlers and the reader only as what
\* Spec already allows at any time: no further output, a write that raises,
\* a read that raises or returns what is left.  SpecDeath adds the death
\* itself, for the property about a reader that meets a dead gdb, on the
\* build where nothing ends the reader (Python 2).
InitPy2 == Init /\ ~py3 /\ ~STARTUP_WITH_SHELL_OFF

NextDeath == Next \/ \E p \in Pids : GdbDies(p)

SpecDeath == InitPy2 /\ [][NextDeath]_vars

----------------------------------------------------------------------------
(* Properties *)

Responses(s) == {i \in 1..Len(rooms[s]) : rooms[s][i].ev = "gdb_response"}

\* C1: every gdb_response event in a client's room was read from a process
\* that was spawned for that client; no room holds another client's output.
C1_RoutingIsolation ==
    \A s \in Sids : \A i \in Responses(s) : procs[rooms[s][i].pid].owner = s

\* Two clients have each been forwarded output of their own process.
C1_Witness ==
    \A s \in Sids : \E i \in Responses(s) : procs[rooms[s][i].pid].owner = s

\* C2: in every room the records of one process appear in the order the
\* process produced them, none of them twice.
C2_PerConnectionFifo ==
    \A s \in Sids : \A i, j \in Responses(s) :
        /\ rooms[s][i].lo <= rooms[s][i].hi
        /\ (i < j /\ rooms[s][i].pid = rooms[s][j].pid) => rooms[s][i].hi < rooms[s][j].lo

\* One room holds two responses of the same process, forwarded by two reads.
C2_Witness ==
    \E s \in Sids : \E i, j \in Responses(s) : i < j /\ rooms[s][i].pid = rooms[s][j].pid

\* No process is bound to two sids, or to a sid it was not spawned for.
C3_OneSessionPerSid ==
    \A s \in Sids : gdb_controllers[s] # None =>
        /\ gdb_controllers[s] \in Pids
        /\ procs[gdb_controllers[s]].owner = s
        /\ \A t \in Sids \ {s} : gdb_controllers[t] # gdb_controllers[s]

C3_ConnectStep(s) ==
    IF gdb_controllers[s] # None
    THEN gdb_controllers' = gdb_controllers /\ procs' = procs
    ELSE /\ \A t \in Sids \ {s} : gdb_controllers'[t] = gdb_controllers[t]
         /\ \/ gdb_controllers'[s] = None /\ procs' = procs
            \/ /\ procs' = Append(procs, NewController(s))
               /\ gdb_controllers'[s] = Len(procs')

\* C3: a step of client_connected for a sid that has a controller changes
\* neither the table nor the set of processes; one for a sid that has none
\* adds at most one process, and then binds exactly that process to the sid;
\* at every state a sid has at most one controller, spawned for it and bound
\* to no other sid.
C3_ConnectIdempotent ==
    /\ []C3_OneSessionPerSid
    /\ [][\A s \in Sids : client_connected(s) => C3_ConnectStep(s)]_vars

\* A client has connected a second time while its controller was in the
\* table: its room holds gdb_pid twice for the same process.
C3_Witness ==
    \E s \in Sids : \E i, j \in 1..Len(rooms[s]) :
        /\ i < j
        /\ rooms[s][i].ev = "gdb_pid" /\ rooms[s][j].ev = "gdb_pid"
        /\ rooms[s][i].pid = rooms[s][j].pid
        /\ gdb_controllers[s] = rooms[s][i].pid

\* C4: the reader task is started at most once.
C4_SingleFlight == Len(readers) <= 1

\* C5: run_gdb_command for a sid without a controller emits exactly one
\* error_running_gdb_command ('gdb is not running') to that sid and returns;
\* it changes neither the table nor any process.
C5_UnknownSessionError ==
    [][\A s \in Sids :
        (run_gdb_command(s) /\ run[s] = None /\ gdb_controllers[s] = None) =>
            /\ rooms' = [rooms EXCEPT ![s] = Append(@, ErrorRunning("gdb is not running"))]
            /\ gdb_controllers' = gdb_controllers
            /\ procs' = procs
            /\ run'[s] = None]_vars

\* A client that never had a process has been told gdb is not running.
C5_Witness ==
    \E s \in Sids :
        /\ \A p \in Pids : procs[p].owner # s
        /\ Len(rooms[s]) = 1
        /\ rooms[s][1] = ErrorRunning("gdb is not running")

\* C6: a disconnect that removes an entry while a reader is inside its for
\* loop does not end the reader.
C6_DisconnectDuringTick ==
    \A d \in 1..Len(readers) : ~(readers[d].pc = "dead" /\ readers[d].lenx < readers[d].len0)

\* C7: a reader, once started, never leaves its while loop.
C7_ReaderNeverDies ==
    \A d \in 1..Len(readers) : readers[d].pc # "dead"

\* C8: a tick in which an exception of get_gdb_response was swallowed still
\* polls every other session of that tick that has unread output.
C8_FaultIsolation ==
    \A d \in 1..Len(readers) : readers[d].faulted => readers[d].lost = {}

\* C9: once client_disconnected has found the controller, its step removes
\* the entry and raises nothing, whether or not exit() succeeds.
C9_DisconnectAlwaysRemoves ==
    [][\A s \in Sids :
        (client_disconnected(s) /\ disc[s] # None) =>
            /\ gdb_controllers'[s] = None
            /\ raised' = raised]_vars

\* C10: when GdbController(...) fails in client_connected, no entry is made
\* for the sid, the other entries are untouched, and the sid's room gets one
\* error event.
C10_SpawnFailureReported ==
    [][\A s \in Sids :
        (client_connected(s) /\ conn[s] = "spawn" /\ procs' = procs) =>
            /\ gdb_controllers' = gdb_controllers
            /\ gdb_controllers[s] = None
            /\ Len(rooms'[s]) = Len(rooms[s]) + 1
            /\ rooms'[s][Len(rooms'[s])].ev = "error_running_gdb_command"
            /\ \A t \in Sids \ {s} : rooms'[t] = rooms[t]]_vars

\* C11: when run_gdb_command has found the controller and write raises, the
\* step emits exactly one error_running_gdb_command carrying the exception's
\* message to that sid, raises nothing, returns, and leaves the table (the
\* sid's controller included) and every process as they were.
C11_WriteFailureKeepsSession ==
    [][\A s \in Sids :
        (run_gdb_command(s) /\ run[s] # None /\ procs'[run[s]].wrote = procs[run[s]].wrote) =>
            /\ rooms' = [rooms EXCEPT ![s] = Append(@, ErrorRunning("str(e)"))]
            /\ gdb_controllers' = gdb_controllers
            /\ procs' = procs
            /\ raised' = raised
            /\ run'[s] = None]_vars

\* A write has failed on a live controller that is still the sid's entry.
C11_Witness ==
    \E s \in Sids :
        /\ gdb_controllers[s] # None
        /\ ~procs[gdb_controllers[s]].exited
        /\ run[s] = None
        /\ \E i \in 1..Len(rooms[s]) : rooms[s][i] = ErrorRunning("str(e)")

\* C12: a controller that a tick has polled after its gdb died is out of the
\* table when that tick ends.
C12_DeadProcessPruned ==
    \A d \in 1..Len(readers) :
        readers[d].pc = "sleep" => \A s \in Sids : gdb_controllers[s] \notin readers[d].sawDead

\* C13: the step that ends onDisconnect for a connection leaves the process
\* that was spawned for it terminated.
C13_NoOrphanedSubprocess ==
    [][\A s \in Sids : (disc[s] # None /\ disc'[s] = None) => procs'[disc[s]].exited]_vars

\* C14 as stated: an onConnect for a connection that already has a session
\* emits nothing, spawns nothing and leaves the table as it was.
C14_ReconnectNoOp ==
    [][\A s \in Sids :
        (conn[s] = "idle" /\ HasSession(s) /\ client_connected(s)) =>
            /\ rooms' = rooms
            /\ procs' = procs
            /\ gdb_controllers' = gdb_controllers]_vars

\* C14 as amended: an onConnect for a connection that already has a session
\* spawns nothing, leaves the table as it was and emits to that connection
\* one gdb_pid event, with the pid of the session it has; and every gdb_pid
\* event is put in a room by an onConnect of that room's connection and
\* carries the pid of the session the table then holds for it.
C14_ReconnectEmitsPid ==
    [][\A s \in Sids :
        /\ (conn[s] = "idle" /\ HasSession(s) /\ client_connected(s)) =>
              /\ rooms' = [rooms EXCEPT ![s] = Append(@, GdbPid(gdb_controllers[s]))]
              /\ procs' = procs
              /\ gdb_controllers' = gdb_controllers
        /\ (Len(rooms'[s]) > Len(rooms[s]) /\ rooms'[s][Len(rooms'[s])].ev = "gdb_pid") =>
              /\ client_connected(s)
              /\ rooms'[s][Len(rooms'[s])] = GdbPid(gdb_controllers'[s])]_vars

C14_Witness ==
    \E s \in Sids :
        /\ gdb_reader_thread # None
        /\ Len(procs) = 1
        /\ rooms[s] = <<GdbPid(1), GdbPid(1)>>

\* The session of s has had a command written to its process and the process
\* has output that no response event has carried yet.
Undelivered(s) ==
    /\ HasSession(s)
    /\ procs[gdb_controllers[s]].wrote > 0
    /\ procs[gdb_controllers[s]].read < procs[gdb_controllers[s]].made

\* C15: output of a process that a command was written to is, while its
\* session stays connected, eventually carried to the client by response
\* events.
C15_EventualDelivery ==
    \A s \in Sids : Undelivered(s) ~> ~Undelivered(s)

\* An onDisconnect for s has completed and s has not connected again since:
\* no handler of s is running, and either s has no session and a process
\* of s has been exited, or an onDisconnect of s ended by an exception and
\* the one gdb_pid event in the room of s shows a single connect.
Gone(s) ==
    /\ conn[s] = "idle"
    /\ disc[s] = None
    /\ \/ /\ ~HasSession(s)
          /\ \E p \in Pids : procs[p].owner = s /\ procs[p].exited
       \/ /\ <<"client_disconnected", s>> \in raised
          /\ Cardinality({i \in 1..Len(rooms[s]) : rooms[s][i].ev = "gdb_pid"}) = 1

\* C16: once onDisconnect for s has completed, a tick that begins takes no
\* pair of s from the table, and a further onDisconnect for s changes neither
\* table nor processes nor rooms and attempts no termination.
C16_DisconnectFinal ==
    [][\A s \in Sids : Gone(s) =>
          /\ \A d \in 1..Len(readers) : Reader_Wake(d) =>
                /\ readers'[d].client_id # s
                /\ \A it \in readers'[d].todo : it[1] # s
          /\ client_disconnected(s) =>
                /\ disc'[s] = None
                /\ gdb_controllers' = gdb_controllers
                /\ procs' = procs
                /\ rooms' = rooms
                /\ raised' = raised]_vars

\* C17: all the processes spawned so far were started with the same
\* argument list.
C17_FixedStartupArguments ==
    \A p, q \in Pids : procs[p].gdb_args = procs[q].gdb_args

\* C18: a run_gdb_command step whose write succeeds adds one command to the
\* process it looked up and changes nothing else of any process, no room,
\* not the table, and raises nothing; and output of a process is consumed
\* only by a reader's poll of that process.
C18_SingleWriterSingleReader ==
    [][/\ \A s \in Sids :
            (run_gdb_command(s) /\ run[s] # None /\ procs'[run[s]].wrote # procs[run[s]].wrote) =>
                /\ procs' = [procs EXCEPT ![run[s]].wrote = @ + 1]
                /\ rooms' = rooms
                /\ gdb_controllers' = gdb_controllers
                /\ raised' = raised
       /\ \A p \in Pids :
            procs'[p].read # procs[p].read =>
                \E d \in 1..Len(readers) : readers[d].gdb = p /\ Reader_Poll(d)]_vars

\* A command has been written to a process whose output nobody has read,
\* and its client has been sent nothing but the pid.
C18_Witness ==
    \E p \in Pids :
        /\ procs[p].wrote = 1
        /\ procs[p].made > 0
        /\ procs[p].read = 0
        /\ run[procs[p].owner] = None
        /\ \A i \in 1..Len(rooms[procs[p].owner]) : rooms[procs[p].owner][i].ev = "gdb_pid"

\* C19: no run_gdb_command about to write and no reader about to poll holds
\* a controller on which client_disconnected has called exit().
C19_NoTerminatedProcessExposed ==
    /\ \A s \in Sids : run[s] # None => ~procs[run[s]].exited
    /\ \A d \in 1..Len(readers) :
          readers[d].pc = "poll" => ~procs[readers[d].gdb].exited

====
